---------------------------- MODULE Spec2Model ----------------------------
(***************************************************************************)
(* A model of the scenario player's utilities and command line entry       *)
(* point (tools/scenario-player/scenario_player/utils.py and main.py):     *)
(*                                                                         *)
(*   - wait_for_txs        the confirmation waiter (polling loop)          *)
(*   - get_or_deploy_token the token resolver                              *)
(*   - main                the run / notification logic of the CLI         *)
(*   - FrozenDict          the hashable dict subclass                      *)
(*   - LogBuffer           the line buffer the log handler writes to       *)
(*   - _ui                 the display loop                                *)
(*                                                                         *)
(* Each component has its own specification (SpecWait, SpecToken,          *)
(* SpecMain, SpecDict, SpecLog, SpecUi); the variables of the other        *)
(* components keep their idle value in it.                                 *)
(*                                                                         *)
(* Time is counted in ticks of 0.1 s, the granularity of the waiter's      *)
(* shortest sleep.                                                         *)
(***************************************************************************)
EXTENDS Integers, Sequences, FiniteSets, TLC

(***************************************************************************)
(* Bounds of the model.                                                    *)
(***************************************************************************)
\* number of distinct transaction hashes a call may be given
NumHashes == 2
\* largest timeout of a call, in ticks
MaxTimeout == 20
\* largest latency of one getTransaction query, in ticks
MaxLatency == 1
\* largest number of characters handed to one LogBuffer.write call
MaxContent == 2
\* largest number of LogBuffer.write calls
MaxWrites == 3
\* largest terminal height and width, in rows and columns
MaxHeight == 7
MaxWidth == 2

(***************************************************************************)
(* Program constants.                                                      *)
(***************************************************************************)
\* time.sleep(.1) after every query, in ticks
SleepPoll == 1
\* time.sleep(.5) after every poll cycle, in ticks
SleepCycle == 5

AllHashes == <<"tx1", "tx2", "tx3", "tx4">>
Hashes == {AllHashes[i] : i \in 1..NumHashes}

Range(s) == {s[i] : i \in 1..Len(s)}

\* The lists a caller hands to wait_for_txs: the pending transaction set, an
\* ordered collection of pairwise distinct transaction hashes.
HashLists ==
    {s \in UNION {[1..n -> Hashes] : n \in 0..NumHashes} :
        \A i, j \in 1..Len(s) : s[i] = s[j] => i = j}

VARIABLES
    \* ---- wait_for_txs ----
    w_pc,        \* position in wait_for_txs: "call","while","for","done"
    lists,       \* the list objects: lists[CallerObj] is the caller's list
    txref,       \* the object the local name txhashes is bound to
    timeout,     \* the timeout argument, in ticks
    now,         \* time.monotonic(), in ticks
    start,       \* local start
    outstanding, \* local outstanding (False is 0)
    snapshot,    \* the copy txhashes[:] the for statement iterates over
    idx,         \* position of the for statement in the list it iterates over
    w_result,    \* how the call ended: "none","return","ScenarioTxError","ClientError"
    w_errmsg,    \* the hashes joined into the ScenarioTxError message
    included,    \* chain: the transactions included in a block
    \* history of the call, read only by the properties
    requested,   \* the value of the caller's list when the call was made
    observedAt,  \* per hash, the poll cycle that observed it included (0: none)
    lateIncl,    \* hashes included only after the timeout had elapsed
    cycles,      \* poll cycles started
    fullCycle,   \* a poll cycle started with every requested hash included
    queryFailed, \* a getTransaction query raised
    polled,      \* the queries of the current poll cycle and their answers
    \* ---- get_or_deploy_token ----
    t_pc,        \* position in get_or_deploy_token: "call","branch","done"
    scenario,    \* the scenario dict handed to the call
    token_config,\* local token_config
    address,     \* local address
    t_result,    \* how the call ended
    proxies,     \* the addresses new_contract_proxy was called with
    deployments, \* the (name, symbol) pairs deploy_solidity_contract was called with
    \* ---- main ----
    m_pc,            \* position in main: "start","run","notify","except","finally","wait","done"
    notification_email, \* runner.notification_email
    mailgun_api_key, \* the --mailgun-api-key option
    is_a_tty,        \* terminal.is_a_tty
    assert_errors,   \* local assert_errors
    wrapping,        \* whether the terminal wraps lines
    ui_spawned,      \* the _ui greenlet was spawned
    logged,          \* the log records main wrote, oldest first
    mails,           \* the requests send_notification_mail made, oldest first
    m_exit,          \* how main ended
    runReturned,     \* history: run_scenario returned normally
    \* ---- FrozenDict ----
    d_items,     \* the instance's items, as (key, value) pairs in insertion order
    d_hash,      \* the instance's _hash attribute
    d_last,      \* the last call on the instance and how it ended
    \* ---- LogBuffer ----
    l_buffer,    \* self.buffer: the deque, l_buffer[1] is buffer[0] (the newest line)
    l_last,      \* the last call on the buffer and how it ended
    \* history of the buffer, read only by the properties
    l_written,   \* the concatenation of all content written
    l_writes,    \* the number of write calls
    l_plain,     \* every write was text without a newline, or one bare newline
    \* ---- _ui ----
    u_pc,        \* position of _ui: "loop", or the exception that ended it
    root_task,   \* runner.root_task
    term_height, \* term.height
    term_width,  \* term.width
    last_height, \* local last_height
    last_width,  \* local last_width
    separator,   \* local separator
    scrollback,  \* local scrollback
    bar_color,   \* local bar_color
    shown_bar,   \* screen: the colour of the TASKS and LOG bars
    shown_log,   \* screen: the log lines printed by the last refresh
    \* history of the loop, read only by the properties
    u_read,      \* the value of runner.root_task at the last refresh
    u_state_read \* the last refresh read runner.root_task.state

wvars == <<w_pc, lists, txref, timeout, now, start, outstanding, snapshot, idx,
           w_result, w_errmsg, included, requested, observedAt, lateIncl,
           cycles, fullCycle, queryFailed, polled>>

tvars == <<t_pc, scenario, token_config, address, t_result, proxies, deployments>>

mvars == <<m_pc, notification_email, mailgun_api_key, is_a_tty, assert_errors,
           wrapping, ui_spawned, logged, mails, m_exit, runReturned>>

dvars == <<d_items, d_hash, d_last>>

lvars == <<l_buffer, l_last, l_written, l_writes, l_plain>>

uvars == <<u_pc, root_task, term_height, term_width, last_height, last_width,
           separator, scrollback, bar_color, shown_bar, shown_log, u_read,
           u_state_read>>

vars == <<wvars, tvars, mvars, dvars, lvars, uvars>>

\* The variables of the other components, which a component's actions leave alone.
notW == <<tvars, mvars, dvars, lvars, uvars>>
notT == <<wvars, mvars, dvars, lvars, uvars>>
notM == <<wvars, tvars, dvars, lvars, uvars>>
notD == <<wvars, tvars, mvars, lvars, uvars>>
notL == <<wvars, tvars, mvars, dvars, uvars>>
notU == <<wvars, tvars, mvars, dvars, lvars>>

(***************************************************************************)
(* wait_for_txs (utils.py 94-114)                                          *)
(***************************************************************************)
CallerObj == 0
LocalObj == 1

\* txhashes[:] builds a new list object holding the same elements.
SliceRefAlias(ref) == ref
SliceRef(ref) == LocalObj

\* list.remove(x): drops the first occurrence of x.
RECURSIVE Remove(_, _)
Remove(s, x) ==
    IF s = <<>> THEN <<>>
    ELSE IF Head(s) = x THEN Tail(s)
    ELSE <<Head(s)>> \o Remove(Tail(s), x)

\* ', '.join(names): the names with a separator between neighbours.
RECURSIVE Join(_)
Join(s) ==
    IF s = <<>> THEN <<>>
    ELSE IF Len(s) = 1 THEN s
    ELSE <<Head(s), ", ">> \o Join(Tail(s))

\* The hashes a joined message names, in order.
Named(msg) == [i \in 1..((Len(msg) + 1) \div 2) |-> msg[2 * i - 1]]

\* The list the ScenarioTxError message is built from (line 114).
ErrorListAll == requested
ErrorList == lists[txref]

\* The list the for statement walks (line 107): a copy of txhashes.
ForListLive == lists[txref]
ForList == snapshot

\* The loop condition of line 98.
InTime == now - start < timeout

\* What a query can return for a hash given the chain: None (unknown to the
\* node), a transaction with blockNumber None (pending), or one with a block
\* number (included).
QueryResults(h) == IF h \in included THEN {"included"} ELSE {"none", "pending"}

\* Line 109: tx and tx['blockNumber'] is not None
ConfirmedIfKnown(tx) == tx # "none"
Confirmed(tx) == tx # "none" /\ tx = "included"

WInit ==
    /\ w_pc = "call"
    /\ \E l \in HashLists :
        /\ lists = [o \in {CallerObj, LocalObj} |-> IF o = CallerObj THEN l ELSE <<>>]
        /\ requested = l
    /\ txref = CallerObj
    /\ timeout \in 0..MaxTimeout
    /\ now = 0
    /\ start = 0
    /\ outstanding = 0
    /\ snapshot = <<>>
    /\ idx = 0
    /\ w_result = "none"
    /\ w_errmsg = <<>>
    /\ included = {}
    /\ observedAt = [h \in Hashes |-> 0]
    /\ lateIncl = {}
    /\ cycles = 0
    /\ fullCycle = FALSE
    /\ queryFailed = FALSE
    /\ polled = <<>>

\* Lines 95-97: start = time.monotonic(); outstanding = False; txhashes = txhashes[:]
WaitEnter ==
    /\ w_pc = "call"
    /\ start' = now
    /\ outstanding' = 0
    /\ txref' = SliceRef(txref)
    /\ lists' = [lists EXCEPT ![SliceRef(txref)] = lists[txref]]
    /\ w_pc' = "while"
    /\ UNCHANGED <<timeout, now, snapshot, idx, w_result, w_errmsg, included,
                   requested, observedAt, lateIncl, cycles, fullCycle, queryFailed,
                   polled>>
    /\ UNCHANGED notW

\* Lines 98-107: the loop condition holds; a poll cycle begins.  Lines 100-106
\* leave outstanding = len(txhashes) whichever way the test of line 100 goes
\* (the rest of the block only writes a debug log line).
WaitCycleBegin ==
    /\ w_pc = "while"
    /\ Len(lists[txref]) > 0 /\ InTime
    /\ outstanding' = Len(lists[txref])
    /\ snapshot' = lists[txref]
    /\ idx' = 1
    /\ w_pc' = "for"
    /\ cycles' = cycles + 1
    /\ fullCycle' = (fullCycle \/ Range(requested) \subseteq included)
    /\ polled' = <<>>
    /\ UNCHANGED <<lists, txref, timeout, now, start, w_result, w_errmsg,
                   included, requested, observedAt, lateIncl, queryFailed>>
    /\ UNCHANGED notW

\* Lines 98, 113: the loop ends with nothing left; the call returns.
WaitReturn ==
    /\ w_pc = "while"
    /\ ~(Len(lists[txref]) > 0 /\ InTime)
    /\ Len(lists[txref]) = 0
    /\ w_pc' = "done"
    /\ w_result' = "return"
    /\ UNCHANGED <<lists, txref, timeout, now, start, outstanding, snapshot, idx,
                   w_errmsg, included, requested, observedAt, lateIncl, cycles,
                   fullCycle, queryFailed, polled>>
    /\ UNCHANGED notW

\* Lines 98, 113-114: the loop ends with hashes left; ScenarioTxError.
WaitTimeout ==
    /\ w_pc = "while"
    /\ ~(Len(lists[txref]) > 0 /\ InTime)
    /\ Len(lists[txref]) # 0
    /\ w_pc' = "done"
    /\ w_result' = "ScenarioTxError"
    /\ w_errmsg' = Join(ErrorList)
    /\ UNCHANGED <<lists, txref, timeout, now, start, outstanding, snapshot, idx,
                   included, requested, observedAt, lateIncl, cycles, fullCycle,
                   queryFailed, polled>>
    /\ UNCHANGED notW

\* Lines 107-111: one pass of the for body: the query answers, a confirmed
\* hash is removed, then time.sleep(.1).
WaitPoll ==
    /\ w_pc = "for"
    /\ idx <= Len(ForList)
    /\ \E lat \in 0..MaxLatency : \E tx \in QueryResults(ForList[idx]) :
        /\ now' = now + lat + SleepPoll
        /\ IF Confirmed(tx)
           THEN lists' = [lists EXCEPT ![txref] = Remove(@, ForList[idx])]
           ELSE lists' = lists
        /\ observedAt' = IF tx = "included" /\ observedAt[ForList[idx]] = 0
                         THEN [observedAt EXCEPT ![ForList[idx]] = cycles]
                         ELSE observedAt
        /\ polled' = Append(polled, [hash |-> ForList[idx], tx |-> tx])
    /\ idx' = idx + 1
    /\ UNCHANGED <<w_pc, txref, timeout, start, outstanding, snapshot, w_result,
                   w_errmsg, included, requested, lateIncl, cycles, fullCycle,
                   queryFailed>>
    /\ UNCHANGED notW

\* Line 108: the query raises (a network error); nothing in wait_for_txs
\* catches it, so the call ends with that exception.
WaitPollRaises ==
    /\ w_pc = "for"
    /\ idx <= Len(ForList)
    /\ \E lat \in 0..MaxLatency : now' = now + lat
    /\ w_pc' = "done"
    /\ w_result' = "ClientError"
    /\ queryFailed' = TRUE
    /\ polled' = Append(polled, [hash |-> ForList[idx], tx |-> "raised"])
    /\ UNCHANGED <<lists, txref, timeout, start, outstanding, snapshot, idx,
                   w_errmsg, included, requested, observedAt, lateIncl, cycles,
                   fullCycle>>
    /\ UNCHANGED notW

\* Line 112: the for statement is exhausted; time.sleep(.5).
WaitCycleEnd ==
    /\ w_pc = "for"
    /\ idx > Len(ForList)
    /\ now' = now + SleepCycle
    /\ w_pc' = "while"
    /\ UNCHANGED <<lists, txref, timeout, start, outstanding, snapshot, idx,
                   w_result, w_errmsg, included, requested, observedAt, lateIncl,
                   cycles, fullCycle, queryFailed, polled>>
    /\ UNCHANGED notW

\* The chain includes a transaction in a block (at any time during the call,
\* or before it).
ChainInclude ==
    /\ w_pc # "done"
    /\ \E h \in Hashes \ included :
        /\ included' = included \cup {h}
        /\ lateIncl' = IF w_pc # "call" /\ ~InTime
                       THEN lateIncl \cup {h} ELSE lateIncl
    /\ UNCHANGED <<w_pc, lists, txref, timeout, now, start, outstanding, snapshot,
                   idx, w_result, w_errmsg, requested, observedAt, cycles,
                   fullCycle, queryFailed, polled>>
    /\ UNCHANGED notW

WNext ==
    \/ WaitEnter
    \/ WaitCycleBegin
    \/ WaitReturn
    \/ WaitTimeout
    \/ WaitPoll
    \/ WaitPollRaises
    \/ WaitCycleEnd
    \/ ChainInclude

WIdle ==
    /\ w_pc = "idle"
    /\ lists = [o \in {CallerObj, LocalObj} |-> <<>>]
    /\ requested = <<>>
    /\ txref = CallerObj
    /\ timeout = 0
    /\ now = 0
    /\ start = 0
    /\ outstanding = 0
    /\ snapshot = <<>>
    /\ idx = 0
    /\ w_result = "none"
    /\ w_errmsg = <<>>
    /\ included = {}
    /\ observedAt = [h \in Hashes |-> 0]
    /\ lateIncl = {}
    /\ cycles = 0
    /\ fullCycle = FALSE
    /\ queryFailed = FALSE
    /\ polled = <<>>

(***************************************************************************)
(* get_or_deploy_token (utils.py 117-157)                                  *)
(***************************************************************************)
\* Python values: None, a str (the pieces of its text) and a dict (a function
\* from its keys).
None == [kind |-> "None"]
Str(s) == [kind |-> "str", s |-> s]
Dict(f) == [kind |-> "dict", items |-> f]
EmptyDict == Dict([k \in {} |-> None])

\* dict.get(key, default)
Get(d, key, default) == IF key \in DOMAIN d.items THEN d.items[key] ELSE default

\* Truth value of None, a str or a dict.
Truthy(v) ==
    CASE v.kind = "None" -> FALSE
      [] v.kind = "str" -> v.s # <<>>
      [] v.kind = "dict" -> DOMAIN v.items # {}

\* The values a scenario file can give the keys of its token section.
CodeAddress == Str(<<"0xC0DE">>)
EmptyAddress == Str(<<"0xDEAD">>)
AddressValues == {None, Str(<<>>), CodeAddress, EmptyAddress}
NameValues == {None, Str(<<"MyToken">>)}
SymbolValues == {Str(<<"MTK">>)}

\* The token sections of a scenario file: a dict giving any of the keys
\* address, name and symbol.
TokenDicts ==
    {Dict(f) : f \in
        {g \in UNION {[ks -> AddressValues \cup NameValues \cup SymbolValues] :
                        ks \in SUBSET {"address", "name", "symbol"}} :
            /\ "address" \in DOMAIN g => g["address"] \in AddressValues
            /\ "name" \in DOMAIN g => g["name"] \in NameValues
            /\ "symbol" \in DOMAIN g => g["symbol"] \in SymbolValues}}

\* The scenarios: no token key, token: null, or token: a dict.
Scenarios ==
    {EmptyDict} \cup {Dict([k \in {"token"} |-> v]) : v \in {None} \cup TokenDicts}

\* str(uuid.uuid4()) as its characters, and datetime.now() as formatted.
TokenIds == {<<"a", "b", "c", "d">>, <<"1", "2", "3", "4">>}
Times == {"2018-10-01T10:00", "2018-10-01T10:01"}

\* Lines 121-123: scenario.get('token', {}), an empty or null one replaced by {}.
TokenConfigOf(scn) ==
    IF Truthy(Get(scn, "token", EmptyDict)) THEN Get(scn, "token", EmptyDict)
    ELSE EmptyDict

\* Line 125: if address
AddressGiven(a) == Truthy(a)

\* Line 139: the configured name, or a generated one.
TokenNameGenerated(cfg, id, t) ==
    Str(<<"Scenario Test Token ">> \o id \o <<" ", t>>)
TokenName(cfg, id, t) ==
    Get(cfg, "name", Str(<<"Scenario Test Token ">> \o id \o <<" ", t>>))

\* Line 140: the configured symbol, or "T" and the first 3 characters of the id.
TokenSymbol(cfg, id) == Get(cfg, "symbol", Str(<<"T">> \o SubSeq(id, 1, 3)))

\* raiden.network.rpc.client.check_address_has_code: raises when no code is
\* deployed at the address.
HasCode(a) == a = CodeAddress

TInit ==
    /\ t_pc = "call"
    /\ scenario \in Scenarios
    /\ token_config = None
    /\ address = None
    /\ t_result = "none"
    /\ proxies = <<>>
    /\ deployments = <<>>

TIdle ==
    /\ t_pc = "idle"
    /\ scenario = EmptyDict
    /\ token_config = None
    /\ address = None
    /\ t_result = "none"
    /\ proxies = <<>>
    /\ deployments = <<>>

\* Lines 119-124: read the token section and its address.
TokenConfig ==
    /\ t_pc = "call"
    /\ token_config' = TokenConfigOf(scenario)
    /\ address' = Get(TokenConfigOf(scenario), "address", None)
    /\ t_pc' = "branch"
    /\ UNCHANGED <<scenario, t_result, proxies, deployments>>
    /\ UNCHANGED notT

\* Lines 125-126: an address is given and check_address_has_code raises.
TokenCheckRaises ==
    /\ t_pc = "branch"
    /\ AddressGiven(address)
    /\ ~HasCode(address)
    /\ t_result' = "raise no code"
    /\ t_pc' = "done"
    /\ UNCHANGED <<scenario, token_config, address, proxies, deployments>>
    /\ UNCHANGED notT

\* Lines 125-135: an address is given and has code; the contract is reused.
TokenReuse ==
    /\ t_pc = "branch"
    /\ AddressGiven(address)
    /\ HasCode(address)
    /\ proxies' = Append(proxies, address)
    /\ t_result' = "reused"
    /\ t_pc' = "done"
    /\ UNCHANGED <<scenario, token_config, address, deployments>>
    /\ UNCHANGED notT

\* Lines 137-157: no address; a token is deployed (the deployment may raise).
TokenDeploy ==
    /\ t_pc = "branch"
    /\ ~AddressGiven(address)
    /\ \E id \in TokenIds, t \in Times :
        deployments' = Append(deployments,
            [name |-> TokenName(token_config, id, t),
             symbol |-> TokenSymbol(token_config, id)])
    /\ t_result' \in {"deployed", "raise deploy"}
    /\ t_pc' = "done"
    /\ UNCHANGED <<scenario, token_config, address, proxies>>
    /\ UNCHANGED notT

TNext ==
    \/ TokenConfig
    \/ TokenCheckRaises
    \/ TokenReuse
    \/ TokenDeploy

(***************************************************************************)
(* main (main.py 89-152) and send_notification_mail (utils.py 160-172)     *)
(***************************************************************************)
\* The longest assertion error list run_scenario returns in the model.
MaxErrors == 2

ErrorTexts == {"balance A", "balance B"}
ErrorLists == UNION {[1..n -> ErrorTexts] : n \in 0..MaxErrors}

\* json.dumps of a list of strings: the pieces of the text.
RECURSIVE JsonItems(_)
JsonItems(l) ==
    IF l = <<>> THEN <<>>
    ELSE IF Len(l) = 1 THEN <<"\"", l[1], "\"">>
    ELSE <<"\"", l[1], "\"", ", ">> \o JsonItems(Tail(l))
JsonDumps(l) == <<"[">> \o JsonItems(l) \o <<"]">>

\* Lines 114, 123: if assert_errors
HasErrorsInverted(errs) == Len(errs) = 0
HasErrors(errs) == Len(errs) > 0

\* Line 119, 138: the truth value of the option, and of the configured e-mail.
KeyGiven == Truthy(mailgun_api_key)
EmailGiven == Truthy(notification_email)

\* The request of send_notification_mail (utils.py 162-171); posted is FALSE
\* when requests.post raised.
Mail(subject, message, posted) ==
    [to |-> notification_email, subject |-> subject, message |-> message,
     api_key |-> mailgun_api_key, posted |-> posted]

\* Lines 124-136: the mail main sends for the run's result.
ResultMail(errs, posted) ==
    IF HasErrors(errs)
    THEN Mail("Unexpected channel balances in", JsonDumps(errs), posted)
    ELSE Mail("Scenario successful", <<"Success">>, posted)

\* Lines 114-117: the log record of the run's result.
ResultLog(errs) ==
    IF HasErrors(errs)
    THEN [level |-> "error", event |-> "Run finished", result |-> "assertion errors"]
    ELSE [level |-> "info", event |-> "Run finished", result |-> "success"]

Log(level, event) == [level |-> level, event |-> event, result |-> ""]

MInit ==
    /\ m_pc = "start"
    /\ notification_email \in {None, Str(<<"ops@example.com">>)}
    /\ mailgun_api_key \in {None, Str(<<"key">>)}
    /\ is_a_tty \in BOOLEAN
    /\ assert_errors = <<>>
    /\ wrapping = TRUE
    /\ ui_spawned = FALSE
    /\ logged = <<>>
    /\ mails = <<>>
    /\ m_exit = "none"
    /\ runReturned = FALSE

MIdle ==
    /\ m_pc = "idle"
    /\ notification_email = None
    /\ mailgun_api_key = None
    /\ is_a_tty = FALSE
    /\ assert_errors = <<>>
    /\ wrapping = TRUE
    /\ ui_spawned = FALSE
    /\ logged = <<>>
    /\ mails = <<>>
    /\ m_exit = "none"
    /\ runReturned = FALSE

\* Lines 108-111: line wrapping is disabled and the display loop spawned.
MainStart ==
    /\ m_pc = "start"
    /\ wrapping' = FALSE
    /\ ui_spawned' = TRUE
    /\ m_pc' = "run"
    /\ UNCHANGED <<notification_email, mailgun_api_key, is_a_tty, assert_errors,
                   logged, mails, m_exit, runReturned>>
    /\ UNCHANGED notM

\* Lines 113-117: run_scenario returns its error list; the result is logged.
MainRunReturns ==
    /\ m_pc = "run"
    /\ \E errs \in ErrorLists :
        /\ assert_errors' = errs
        /\ logged' = Append(logged, ResultLog(errs))
    /\ runReturned' = TRUE
    /\ m_pc' = "notify"
    /\ UNCHANGED <<notification_email, mailgun_api_key, is_a_tty, wrapping,
                   ui_spawned, mails, m_exit>>
    /\ UNCHANGED notM

\* Line 113: run_scenario raises an Exception.
MainRunRaises ==
    /\ m_pc = "run"
    /\ m_pc' = "except"
    /\ UNCHANGED <<notification_email, mailgun_api_key, is_a_tty, assert_errors,
                   wrapping, ui_spawned, logged, mails, m_exit, runReturned>>
    /\ UNCHANGED notM

\* Line 113: the operator interrupts the run; KeyboardInterrupt is no
\* Exception, so only the finally block runs.
MainRunInterrupted ==
    /\ m_pc = "run"
    /\ m_exit' = "KeyboardInterrupt"
    /\ m_pc' = "finally"
    /\ UNCHANGED <<notification_email, mailgun_api_key, is_a_tty, assert_errors,
                   wrapping, ui_spawned, logged, mails, runReturned>>
    /\ UNCHANGED notM

\* Line 118: no notification e-mail is configured.
MainNoEmail ==
    /\ m_pc = "notify"
    /\ ~EmailGiven
    /\ m_exit' = "return None"
    /\ m_pc' = "finally"
    /\ UNCHANGED <<notification_email, mailgun_api_key, is_a_tty, assert_errors,
                   wrapping, ui_spawned, logged, mails, runReturned>>
    /\ UNCHANGED notM

\* Lines 118-121: an e-mail is configured but no API key: return 1.
MainNoKey ==
    /\ m_pc = "notify"
    /\ EmailGiven /\ ~KeyGiven
    /\ logged' = Append(logged,
          Log("error", "Can't send notification mail. No API key provided"))
    /\ m_exit' = "return 1"
    /\ m_pc' = "finally"
    /\ UNCHANGED <<notification_email, mailgun_api_key, is_a_tty, assert_errors,
                   wrapping, ui_spawned, mails, runReturned>>
    /\ UNCHANGED notM

\* Lines 118-136: the result mail is sent; requests.post may raise.
MainNotify ==
    /\ m_pc = "notify"
    /\ EmailGiven /\ KeyGiven
    /\ logged' = Append(logged, Log("info", "Sending notification mail"))
    /\ \E posted \in BOOLEAN :
        /\ mails' = Append(mails, ResultMail(assert_errors, posted))
        /\ IF posted
           THEN m_exit' = "return None" /\ m_pc' = "finally"
           ELSE m_exit' = m_exit /\ m_pc' = "except"
    /\ UNCHANGED <<notification_email, mailgun_api_key, is_a_tty, assert_errors,
                   wrapping, ui_spawned, runReturned>>
    /\ UNCHANGED notM

\* Lines 137-145 without a mail: the exception is logged.
MainExceptLog ==
    /\ m_pc = "except"
    /\ ~(EmailGiven /\ KeyGiven)
    /\ logged' = Append(logged, Log("exception", "Exception while running scenario"))
    /\ m_exit' = "return None"
    /\ m_pc' = "finally"
    /\ UNCHANGED <<notification_email, mailgun_api_key, is_a_tty, assert_errors,
                   wrapping, ui_spawned, mails, runReturned>>
    /\ UNCHANGED notM

\* Lines 137-145 with a mail: the error mail is sent, then the exception is
\* logged; when requests.post raises, that exception leaves main.
MainExceptMail ==
    /\ m_pc = "except"
    /\ EmailGiven /\ KeyGiven
    /\ \E posted \in BOOLEAN :
        /\ mails' = Append(mails, Mail("Error running scenario", <<"traceback">>, posted))
        /\ IF posted
           THEN /\ logged' = Append(logged,
                     Log("exception", "Exception while running scenario"))
                /\ m_exit' = "return None"
           ELSE /\ logged' = logged
                /\ m_exit' = "Exception"
    /\ m_pc' = "finally"
    /\ UNCHANGED <<notification_email, mailgun_api_key, is_a_tty, assert_errors,
                   wrapping, ui_spawned, runReturned>>
    /\ UNCHANGED notM

\* Lines 146-152, not on a terminal: line wrapping is enabled again; main ends.
MainFinally ==
    /\ m_pc = "finally"
    /\ ~is_a_tty
    /\ wrapping' = TRUE
    /\ m_pc' = "done"
    /\ UNCHANGED <<notification_email, mailgun_api_key, is_a_tty, assert_errors,
                   ui_spawned, logged, mails, m_exit, runReturned>>
    /\ UNCHANGED notM

\* Lines 146-148, on a terminal: main asks for Ctrl-C and starts to wait.
MainFinallyTty ==
    /\ m_pc = "finally"
    /\ is_a_tty
    /\ logged' = Append(logged, Log("warning", "Press Ctrl-C to exit"))
    /\ m_pc' = "wait"
    /\ UNCHANGED <<notification_email, mailgun_api_key, is_a_tty, assert_errors,
                   wrapping, ui_spawned, mails, m_exit, runReturned>>
    /\ UNCHANGED notM

\* Lines 149-150: one gevent.sleep(1) of the endless loop.
MainWait ==
    /\ m_pc = "wait"
    /\ UNCHANGED mvars
    /\ UNCHANGED notM

\* Line 150: Ctrl-C raises KeyboardInterrupt in the sleep; it leaves the
\* finally block, and main, at once.
MainCtrlC ==
    /\ m_pc = "wait"
    /\ m_exit' = "KeyboardInterrupt"
    /\ m_pc' = "done"
    /\ UNCHANGED <<notification_email, mailgun_api_key, is_a_tty, assert_errors,
                   wrapping, ui_spawned, logged, mails, runReturned>>
    /\ UNCHANGED notM

MNext ==
    \/ MainStart
    \/ MainRunReturns
    \/ MainRunRaises
    \/ MainRunInterrupted
    \/ MainNoEmail
    \/ MainNoKey
    \/ MainNotify
    \/ MainExceptLog
    \/ MainExceptMail
    \/ MainFinally
    \/ MainFinallyTty
    \/ MainWait
    \/ MainCtrlC

(***************************************************************************)
(* FrozenDict (utils.py 41-65)                                             *)
(***************************************************************************)
\* Bounds: the keys and values an instance is built from, and the range of
\* the hash of a (key, value) tuple.
NumKeys == 2
NumVals == 2
HashRange == 8

Keys == 1..NumKeys
Vals == 1..NumVals

\* _hash = None (line 45)
NoHash == -1

\* The items a dict can hold: pairs with pairwise distinct keys.
ItemLists ==
    {s \in UNION {[1..n -> Keys \X Vals] : n \in 0..NumKeys} :
        \A i, j \in 1..Len(s) : s[i][1] = s[j][1] => i = j}

KeysOf(items) == {items[i][1] : i \in 1..Len(items)}

\* The mapping a dict stands for: what dict.__eq__ compares.
AsMap(items) ==
    [k \in KeysOf(items) |->
        LET i == CHOOSE j \in 1..Len(items) : items[j][1] = k IN items[i][2]]

\* hash((k, v)) of a tuple of two small integers.
PairHash(k, v) == (5 * k + 3 * v) % HashRange

\* a ^ b on naturals
RECURSIVE Xor(_, _)
Xor(a, b) ==
    IF a = 0 THEN b
    ELSE IF b = 0 THEN a
    ELSE (((a % 2) + (b % 2)) % 2) + 2 * Xor(a \div 2, b \div 2)

\* Lines 49-51: h = 0; for k, v in self.items(): h ^= hash((k, v))
RECURSIVE ComputeHash(_)
ComputeHash(items) ==
    IF items = <<>> THEN 0
    ELSE Xor(ComputeHash(SubSeq(items, 1, Len(items) - 1)),
             PairHash(items[Len(items)][1], items[Len(items)][2]))

\* Lines 47-53: what __hash__ returns in the current state.
HashValue == IF d_hash = NoHash THEN ComputeHash(d_items) ELSE d_hash

\* The items without the one of key k.
RECURSIVE Without(_, _)
Without(items, k) ==
    IF items = <<>> THEN <<>>
    ELSE IF Head(items)[1] = k THEN Tail(items)
    ELSE <<Head(items)>> \o Without(Tail(items), k)

Call(op, outcome) == [op |-> op, outcome |-> outcome]

DInit ==
    /\ d_items \in ItemLists
    /\ d_hash = NoHash
    /\ d_last = Call("__init__", "ok")

DIdle ==
    /\ d_items = <<>>
    /\ d_hash = NoHash
    /\ d_last = Call("idle", "ok")

\* Lines 47-53: __hash__ computes the hash once and caches it.
DictHash ==
    /\ d_hash' = HashValue
    /\ d_last' = Call("__hash__", "ok")
    /\ UNCHANGED d_items
    /\ UNCHANGED notD

\* Lines 55-56: d[k] = v
DictSetItem ==
    /\ \E k \in Keys, v \in Vals : d_last' = Call("__setitem__", "TypeError")
    /\ UNCHANGED <<d_items, d_hash>>
    /\ UNCHANGED notD

\* Lines 58-59: del d[k]
DictDelItem ==
    /\ \E k \in Keys : d_last' = Call("__delitem__", "TypeError")
    /\ UNCHANGED <<d_items, d_hash>>
    /\ UNCHANGED notD

\* Lines 61-62: d.update(...)
DictUpdate ==
    /\ d_last' = Call("update", "TypeError")
    /\ UNCHANGED <<d_items, d_hash>>
    /\ UNCHANGED notD

\* Lines 64-65: d.clear()
DictClear ==
    /\ d_last' = Call("clear", "TypeError")
    /\ UNCHANGED <<d_items, d_hash>>
    /\ UNCHANGED notD

\* Line 41: d.pop(k) is dict's own: it removes the key, or raises KeyError.
DictPop ==
    /\ \E k \in Keys :
        IF k \in KeysOf(d_items)
        THEN d_items' = Without(d_items, k) /\ d_last' = Call("pop", "ok")
        ELSE d_items' = d_items /\ d_last' = Call("pop", "KeyError")
    /\ UNCHANGED d_hash
    /\ UNCHANGED notD

\* Line 41: d.popitem() is dict's own: it removes the item inserted last, or
\* raises KeyError on an empty dict.
DictPopItem ==
    /\ IF d_items # <<>>
       THEN /\ d_items' = SubSeq(d_items, 1, Len(d_items) - 1)
            /\ d_last' = Call("popitem", "ok")
       ELSE /\ d_items' = d_items
            /\ d_last' = Call("popitem", "KeyError")
    /\ UNCHANGED d_hash
    /\ UNCHANGED notD

\* Line 41: d.setdefault(k, v) is dict's own: it inserts a missing key.
DictSetDefault ==
    /\ \E k \in Keys, v \in Vals :
        d_items' = IF k \in KeysOf(d_items) THEN d_items
                   ELSE Append(d_items, <<k, v>>)
    /\ d_last' = Call("setdefault", "ok")
    /\ UNCHANGED d_hash
    /\ UNCHANGED notD

DNext ==
    \/ DictHash
    \/ DictSetItem
    \/ DictDelItem
    \/ DictUpdate
    \/ DictClear
    \/ DictPop
    \/ DictPopItem
    \/ DictSetDefault

(***************************************************************************)
(* LogBuffer (utils.py 68-86)                                              *)
(***************************************************************************)
\* A string is a sequence of characters; NL is the newline.
NL == "\n"
Chars == {"a", NL}
Contents == UNION {[1..n -> Chars] : n \in 0..MaxContent}

\* capacity=1000, the maxlen of the deque (main builds LogBuffer()).
Capacity == 1000

\* str.splitlines(): the lines of a string, without the line ends; a newline
\* at the very end starts no further line, and the empty string has no lines.
RECURSIVE SplitFrom(_, _)
SplitFrom(str, cur) ==
    IF str = <<>> THEN (IF cur = <<>> THEN <<>> ELSE <<cur>>)
    ELSE IF Head(str) = NL THEN <<cur>> \o SplitFrom(Tail(str), <<>>)
    ELSE SplitFrom(Tail(str), Append(cur, Head(str)))

SplitLines(str) == SplitFrom(str, <<>>)

\* deque.appendleft(x) on a deque with maxlen: x becomes buffer[0]; a full
\* deque drops its last element.
AppendLeft(buf, x) ==
    IF Len(buf) >= Capacity
    THEN <<x>> \o SubSeq(buf, 1, Capacity - 1)
    ELSE <<x>> \o buf

\* deque.extendleft(xs): appendleft of each element in turn.
RECURSIVE ExtendLeft(_, _)
ExtendLeft(buf, xs) ==
    IF xs = <<>> THEN buf
    ELSE ExtendLeft(AppendLeft(buf, Head(xs)), Tail(xs))

Reversed(seq) == [i \in 1..Len(seq) |-> seq[Len(seq) + 1 - i]]

\* islice(iterable, stop) and islice(iterable, start, stop) for arguments
\* that are not negative.
Islice(seq, from, to) ==
    IF from >= to \/ from >= Len(seq) THEN <<>>
    ELSE SubSeq(seq, from + 1, IF to > Len(seq) THEN Len(seq) ELSE to)

\* getlines(start, stop), lines 81-86: a stop of 0 (or None) is false, and
\* then islice(self.buffer, start) takes the first start elements.
GetLines(buf, from, to) ==
    IF to # 0
    THEN Reversed(Islice(buf, from, to))
    ELSE Reversed(Islice(buf, 0, from))

\* islice raises ValueError for a negative argument.
GetLinesRaises(from, to) ==
    IF to # 0 THEN from < 0 \/ to < 0 ELSE from < 0

\* Text without a newline, or one bare newline: the two kinds of content a
\* stream handler writing message and terminator separately hands over.
Plain(content) ==
    \/ content = <<NL>>
    \/ content # <<>> /\ \A i \in 1..Len(content) : content[i] # NL

\* __init__, line 70: deque([''], maxlen=capacity)
LInit ==
    /\ l_buffer = <<<<>>>>
    /\ l_last = "init"
    /\ l_written = <<>>
    /\ l_writes = 0
    /\ l_plain = TRUE

LIdle ==
    /\ l_buffer = <<<<>>>>
    /\ l_last = "idle"
    /\ l_written = <<>>
    /\ l_writes = 0
    /\ l_plain = TRUE

\* write(content), lines 72-79, for content that has a first line.
LogWrite ==
    /\ l_last # "idle"
    /\ l_writes < MaxWrites
    /\ \E content \in Contents :
        LET lines == SplitLines(content) IN
        /\ lines # <<>>
        /\ LET joined == [l_buffer EXCEPT ![1] = @ \o lines[1]] IN
           l_buffer' = IF lines = <<<<>>>>
                       THEN AppendLeft(joined, <<>>)
                       ELSE ExtendLeft(joined, Tail(lines))
        /\ l_written' = l_written \o content
        /\ l_plain' = (l_plain /\ Plain(content))
    /\ l_last' = "write"
    /\ l_writes' = l_writes + 1
    /\ UNCHANGED notL

\* write(''), lines 73-74: splitlines() gives [], so lines[0] raises
\* IndexError before the buffer is touched.
LogWriteRaises ==
    /\ l_last # "idle"
    /\ l_writes < MaxWrites
    /\ \E content \in Contents :
        /\ SplitLines(content) = <<>>
        /\ l_written' = l_written \o content
        /\ l_plain' = (l_plain /\ Plain(content))
    /\ l_last' = "IndexError"
    /\ l_writes' = l_writes + 1
    /\ UNCHANGED l_buffer
    /\ UNCHANGED notL

LNext ==
    \/ LogWrite
    \/ LogWriteRaises

(***************************************************************************)
(* _ui (main.py 25-79)                                                     *)
(*                                                                         *)
(* _ui runs as a greenlet: one pass of its loop body runs without giving   *)
(* up control, and the runner and the terminal change only while it sleeps *)
(* (line 79) or before it first runs.                                      *)
(***************************************************************************)
TaskStates == {"PENDING", "RUNNING", "FINISHED", "ERRORED"}
Task(state) == [kind |-> "Task", state |-> state]
Unread == [kind |-> "Unread"]

\* The truth value of runner.root_task (lines 34, 41, 45, 53): None is false,
\* a task is true.
RootGuardAlways(root) == TRUE
RootGuard(root) == root.kind # "None"

\* Line 42: int((term.height - 1) / 3) * 2
Separator(height) == ((height - 1) \div 3) * 2

\* Lines 44-49, for a root task that exists.
StateColor(state) ==
    IF state = "FINISHED" THEN "green"
    ELSE IF state = "ERRORED" THEN "red"
    ELSE "blue"

UInit ==
    /\ u_pc = "loop"
    /\ root_task \in {None, Task("PENDING")}
    /\ term_height \in 1..MaxHeight
    /\ term_width \in 1..MaxWidth
    /\ last_height = 0
    /\ last_width = 0
    /\ separator = 1
    /\ scrollback = 0
    /\ bar_color = "unset"
    /\ shown_bar = "none"
    /\ shown_log = <<>>
    /\ u_read = Unread
    /\ u_state_read = FALSE

UIdle ==
    /\ u_pc = "idle"
    /\ root_task = None
    /\ term_height = 1
    /\ term_width = 1
    /\ last_height = 0
    /\ last_width = 0
    /\ separator = 1
    /\ scrollback = 0
    /\ bar_color = "unset"
    /\ shown_bar = "none"
    /\ shown_log = <<>>
    /\ u_read = Unread
    /\ u_state_read = FALSE

\* Lines 31-79: one pass of the loop body, up to and including the sleep.
\* Reading .state of None raises AttributeError, and getlines raises
\* ValueError for a negative stop; either ends the greenlet.
UiRefresh ==
    /\ u_pc = "loop"
    /\ LET size_changed ==
               \/ term_height # last_height
               \/ term_width # last_width
               \/ (RootGuard(root_task) /\ separator = 1)
           sep == IF size_changed /\ RootGuard(root_task)
                  THEN Separator(term_height)
                  ELSE separator
           line_count == term_height - sep - 1
           cleared_bar == IF size_changed THEN "none" ELSE shown_bar
           cleared_log == IF size_changed THEN <<>> ELSE shown_log
       IN
       /\ last_height' = IF size_changed THEN term_height ELSE last_height
       /\ last_width' = IF size_changed THEN term_width ELSE last_width
       /\ separator' = sep
       /\ u_read' = root_task
       /\ u_state_read' = RootGuard(root_task)
       /\ IF RootGuard(root_task) /\ root_task = None
          THEN /\ bar_color' = "blue"
               /\ shown_bar' = cleared_bar
               /\ shown_log' = cleared_log
               /\ u_pc' = "AttributeError"
          ELSE /\ bar_color' = IF RootGuard(root_task)
                               THEN StateColor(root_task.state)
                               ELSE "blue"
               /\ shown_bar' = bar_color'
               /\ IF GetLinesRaises(scrollback, line_count + scrollback)
                  THEN /\ shown_log' = cleared_log
                       /\ u_pc' = "ValueError"
                  ELSE /\ shown_log' = GetLines(l_buffer, scrollback,
                                                line_count + scrollback)
                       /\ u_pc' = "loop"
    /\ UNCHANGED <<root_task, term_height, term_width, scrollback>>
    /\ UNCHANGED notU

\* The terminal is resized.
TermResize ==
    /\ u_pc # "idle"
    /\ \E h \in 1..MaxHeight, w \in 1..MaxWidth :
        /\ <<h, w>> # <<term_height, term_width>>
        /\ term_height' = h
        /\ term_width' = w
    /\ UNCHANGED <<u_pc, root_task, last_height, last_width, separator,
                   scrollback, bar_color, shown_bar, shown_log, u_read,
                   u_state_read>>
    /\ UNCHANGED notU

\* The runner builds the task tree: the root task exists, PENDING.
RunnerBuild ==
    /\ u_pc # "idle"
    /\ root_task = None
    /\ root_task' = Task("PENDING")
    /\ UNCHANGED <<u_pc, term_height, term_width, last_height, last_width,
                   separator, scrollback, bar_color, shown_bar, shown_log,
                   u_read, u_state_read>>
    /\ UNCHANGED notU

\* The root task is scheduled.
RunnerStart ==
    /\ u_pc # "idle"
    /\ root_task = Task("PENDING")
    /\ root_task' = Task("RUNNING")
    /\ UNCHANGED <<u_pc, term_height, term_width, last_height, last_width,
                   separator, scrollback, bar_color, shown_bar, shown_log,
                   u_read, u_state_read>>
    /\ UNCHANGED notU

\* The root task ends, FINISHED or ERRORED.
RunnerEnd ==
    /\ u_pc # "idle"
    /\ root_task = Task("RUNNING")
    /\ \E state \in {"FINISHED", "ERRORED"} : root_task' = Task(state)
    /\ UNCHANGED <<u_pc, term_height, term_width, last_height, last_width,
                   separator, scrollback, bar_color, shown_bar, shown_log,
                   u_read, u_state_read>>
    /\ UNCHANGED notU

UNext ==
    \/ UiRefresh
    \/ TermResize
    \/ RunnerBuild
    \/ RunnerStart
    \/ RunnerEnd

(***************************************************************************)
(* The specifications                                                      *)
(***************************************************************************)
InitWait == WInit /\ TIdle /\ MIdle /\ DIdle /\ LIdle /\ UIdle
SpecWait == InitWait /\ [][WNext]_vars

InitToken == TInit /\ WIdle /\ MIdle /\ DIdle /\ LIdle /\ UIdle
SpecToken == InitToken /\ [][TNext]_vars

InitMain == MInit /\ WIdle /\ TIdle /\ DIdle /\ LIdle /\ UIdle
SpecMain == InitMain /\ [][MNext]_vars

InitDict == DInit /\ WIdle /\ TIdle /\ MIdle /\ LIdle /\ UIdle
SpecDict == InitDict /\ [][DNext]_vars

InitLog == LInit /\ WIdle /\ TIdle /\ MIdle /\ DIdle /\ UIdle
SpecLog == InitLog /\ [][LNext]_vars

InitUi == UInit /\ WIdle /\ TIdle /\ MIdle /\ DIdle /\ LIdle
SpecUi == InitUi /\ [][UNext]_vars

(***************************************************************************)
(* Properties of wait_for_txs                                              *)
(***************************************************************************)
AllObserved == \A h \in Range(requested) : observedAt[h] # 0

\* The requested hashes no poll observed as included, in input order.
RECURSIVE Unobserved(_)
Unobserved(s) ==
    IF s = <<>> THEN <<>>
    ELSE IF observedAt[Head(s)] = 0 THEN <<Head(s)>> \o Unobserved(Tail(s))
    ELSE Unobserved(Tail(s))

\* C1: wait_for_txs is all-or-nothing: when the call has ended, either it
\* returned normally and every requested hash was observed as included by one
\* of its polls, or it raised ScenarioTxError; no other ending exists.
C1_AllOrNothing ==
    w_pc = "done" =>
        \/ w_result = "return" /\ AllObserved
        \/ w_result = "ScenarioTxError"

\* The part of C1 that the code keeps: a normal return implies that every
\* requested hash was observed as included.
C1_ReturnImpliesAllObserved ==
    (w_pc = "done" /\ w_result = "return") => AllObserved

\* C2: when the call fails on timeout, the error names exactly the requested
\* hashes that no poll observed as included, in input order.
C2_ErrorNamesUnconfirmed ==
    (w_pc = "done" /\ w_result = "ScenarioTxError") =>
        Named(w_errmsg) = Unobserved(requested)

\* C2's case: {tx1, tx2}, tx1 confirmed and tx2 not; the error names tx2 only.
C2_Witness ==
    /\ w_pc = "done" /\ w_result = "ScenarioTxError"
    /\ requested = <<"tx1", "tx2">>
    /\ observedAt["tx1"] # 0
    /\ w_errmsg = <<"tx2">>

\* C3: the timeout is enforced: in a call whose queries all answered, a
\* requested hash that was not included when the timeout elapsed (it was
\* included later, or never) makes the call fail with ScenarioTxError naming
\* that hash.
C3_TimeoutEnforced ==
    (w_pc = "done" /\ ~queryFailed) =>
        \A h \in Range(requested) :
            (h \in lateIncl \/ h \notin included) =>
                (w_result = "ScenarioTxError" /\ h \in Range(Named(w_errmsg)))

\* C4: confirmations arriving at different times within the timeout: if a
\* poll cycle started (so the timeout had not elapsed) when every requested
\* hash was included, and no query failed, the call returns normally.
C4_SucceedsWithinTimeout ==
    (w_pc = "done" /\ ~queryFailed /\ fullCycle) => w_result = "return"

\* C4's case: tx2 is confirmed in the first poll cycle, tx1 only after three
\* further cycles (against the order of the list), and the call returns.
C4_Witness ==
    /\ w_pc = "done" /\ w_result = "return"
    /\ requested = <<"tx1", "tx2">>
    /\ observedAt["tx2"] = 1
    /\ observedAt["tx1"] >= 4

\* C5: a failed query does not abort the call: after a query raised, the call
\* is still polling, or ended with success (all observed) or with the timeout
\* error once the deadline was reached.
C5_ToleratesQueryFailure ==
    queryFailed =>
        \/ w_pc # "done"
        \/ w_result = "return" /\ AllObserved
        \/ w_result = "ScenarioTxError" /\ ~InTime

\* C6: the caller's list is only read: at every point of the call, and so on
\* every way out of it, it holds the elements it held when the call was made,
\* in the same order.
C6_CallerListUnchanged == lists[CallerObj] = requested

\* C6's case: the call ended by an exception of the chain client after the
\* private copy had lost an element.
C6_Witness ==
    /\ w_pc = "done" /\ w_result = "ClientError"
    /\ Len(lists[txref]) < Len(requested)
    /\ Len(requested) = NumHashes

\* The outstanding set: the elements of the list the local name txhashes is
\* bound to.
Outstanding == Range(lists[txref])

\* The step is a query of hash h (a call of getTransaction, line 108).
Queries(h) ==
    /\ Len(polled') = Len(polled) + 1
    /\ polled'[Len(polled')].hash = h

\* The step is a query of hash h that observed a non-null blockNumber.
ObservesIncluded(h) ==
    /\ Queries(h)
    /\ polled'[Len(polled')].tx = "included"

\* C13: the outstanding set only shrinks (no hash ever enters it); within one
\* poll cycle no hash is queried twice; a hash leaves the set exactly in a step
\* whose query observed it with a non-null blockNumber; and only hashes still
\* outstanding are queried, so a removed hash is never queried again.
C13_OutstandingOnlyShrinks ==
    [][ /\ Outstanding' \subseteq Outstanding
        /\ \A i, j \in 1..Len(polled') :
              polled'[i].hash = polled'[j].hash => i = j
        /\ \A h \in Hashes :
              /\ (h \in Outstanding \ Outstanding') <=> ObservesIncluded(h)
              /\ Queries(h) => h \in Outstanding
      ]_vars

\* Two hashes were requested; one was observed included and removed in the
\* first cycle, and a later cycle has queried the other.
C13_Witness ==
    /\ Len(requested) = 2
    /\ cycles >= 2
    /\ Len(polled) = 1
    /\ \E h \in Range(requested) :
          /\ observedAt[h] = 1
          /\ h \notin Outstanding
          /\ polled[1].hash # h

(***************************************************************************)
(* Properties of get_or_deploy_token                                       *)
(***************************************************************************)
\* The token section as the scenario file gives it: its keys, when it is a
\* dict at all.
Section ==
    IF "token" \in DOMAIN scenario.items /\ scenario.items["token"].kind = "dict"
    THEN scenario.items["token"].items
    ELSE [k \in {} |-> None]
AddressConfigured ==
    /\ "address" \in DOMAIN Section
    /\ Section["address"].kind = "str"
    /\ Section["address"].s # <<>>
IsGeneratedName(n) ==
    n.kind = "str" /\ Len(n.s) > 1 /\ n.s[1] = "Scenario Test Token "
IsGeneratedSymbol(x) == x.kind = "str" /\ Len(x.s) = 4 /\ x.s[1] = "T"

\* C7: when the call has ended: with an address configured that has code the
\* contract is reused (a proxy for that address) and nothing is deployed; with
\* an address configured that has no code the call raised and nothing is
\* deployed; with no address configured exactly one token is deployed, under
\* the configured name and symbol where given and generated ones otherwise.
C7_ResolveOrDeploy ==
    t_pc = "done" =>
        /\ (AddressConfigured /\ HasCode(Section["address"])) =>
              /\ t_result = "reused"
              /\ proxies = <<Section["address"]>>
              /\ deployments = <<>>
        /\ (AddressConfigured /\ ~HasCode(Section["address"])) =>
              /\ t_result = "raise no code"
              /\ proxies = <<>>
              /\ deployments = <<>>
        /\ ~AddressConfigured =>
              /\ t_result \in {"deployed", "raise deploy"}
              /\ proxies = <<>>
              /\ Len(deployments) = 1
              /\ IF "name" \in DOMAIN Section
                 THEN deployments[1].name = Section["name"]
                 ELSE IsGeneratedName(deployments[1].name)
              /\ IF "symbol" \in DOMAIN Section
                 THEN deployments[1].symbol = Section["symbol"]
                 ELSE IsGeneratedSymbol(deployments[1].symbol)

\* C7's case: a token section that names the token but gives no address; the
\* token is deployed once under the configured name and a generated symbol.
C7_Witness ==
    /\ t_pc = "done" /\ t_result = "deployed"
    /\ DOMAIN Section = {"name"} /\ Section["name"] = Str(<<"MyToken">>)
    /\ Len(deployments) = 1
    /\ deployments[1].name = Str(<<"MyToken">>)
    /\ deployments[1].symbol = Str(<<"T", "a", "b", "c">>)

(***************************************************************************)
(* Properties of main                                                      *)
(***************************************************************************)
\* The list a JSON text of strings stands for (json.loads).
JsonLoads(text) == [i \in 1..((Len(text) - 1) \div 4) |-> text[4 * i - 1]]

FailureLog == [level |-> "error", event |-> "Run finished", result |-> "assertion errors"]
SuccessLog == [level |-> "info", event |-> "Run finished", result |-> "success"]
IsFailureMail(m) == m.subject = "Unexpected channel balances in"
IsSuccessMail(m) == m.subject = "Scenario successful"

\* C8: once run_scenario has returned, its error list decides the messages: a
\* non-empty list is logged as 'assertion errors' and, with e-mail and API key
\* configured, the first mail sent is the failure mail whose text decodes to
\* the error list; an empty list is logged as 'success' and the first mail
\* sent is the success mail; without e-mail or key no mail is sent; and never
\* are both the success and the failure message produced.
C8_ErrorListDecidesMessaging ==
    /\ runReturned =>
        /\ IF assert_errors # <<>>
           THEN FailureLog \in Range(logged)
           ELSE SuccessLog \in Range(logged)
        /\ (m_pc # "notify" /\ EmailGiven /\ KeyGiven) =>
              /\ Len(mails) >= 1
              /\ mails[1].to = notification_email
              /\ IF assert_errors # <<>>
                 THEN /\ IsFailureMail(mails[1])
                      /\ JsonLoads(mails[1].message) = assert_errors
                 ELSE /\ IsSuccessMail(mails[1])
                      /\ mails[1].message = <<"Success">>
    /\ ~(EmailGiven /\ KeyGiven) => mails = <<>>
    /\ ~(FailureLog \in Range(logged) /\ SuccessLog \in Range(logged))
    /\ ~\E i, j \in 1..Len(mails) : IsFailureMail(mails[i]) /\ IsSuccessMail(mails[j])

\* C8's case: a run that returned two assertion errors, with e-mail and key
\* configured, has ended after the failure mail was posted.
C8_Witness ==
    /\ m_pc = "done" /\ runReturned
    /\ Len(assert_errors) = 2
    /\ Len(mails) = 1 /\ mails[1].posted /\ IsFailureMail(mails[1])
    /\ FailureLog \in Range(logged)

IsErrorMail(m) == m.subject = "Error running scenario"
NoKeyLog == Log("error", "Can't send notification mail. No API key provided")

\* The position of a record in the log (0: not logged).
LogIndex(rec) ==
    IF rec \in Range(logged)
    THEN CHOOSE i \in 1..Len(logged) : logged[i] = rec
    ELSE 0

\* C11: line wrapping, disabled when main starts, is enabled again whenever
\* main has ended, whichever way it ended.
C11_WrappingRestored == m_pc = "done" => wrapping

\* The part of C11 the code keeps: off a terminal, main always ends with line
\* wrapping enabled again.
Main_WrappingRestoredOffTty == (m_pc = "done" /\ ~is_a_tty) => wrapping

\* C14: the 'Error running scenario' mail is sent only when run_scenario
\* raised (never after it returned normally), and main attempts at most one
\* mail, also when sending the result mail fails.
C14_ErrorMailOnlyWhenRunRaised ==
    /\ runReturned => ~\E i \in 1..Len(mails) : IsErrorMail(mails[i])
    /\ Len(mails) <= 1

\* The part of C14 the code keeps: as long as no request of
\* send_notification_mail raised, at most one mail was attempted and the error
\* mail belongs to a run that raised.
Main_OneMailUnlessSendRaises ==
    (\A i \in 1..Len(mails) : mails[i].posted) =>
        /\ runReturned => ~\E i \in 1..Len(mails) : IsErrorMail(mails[i])
        /\ Len(mails) <= 1

\* C15: with an e-mail configured and no API key, main never attempts a mail;
\* and when run_scenario returned normally main ends by returning 1, having
\* logged the missing key after the run's result.
C15_NoKeyNoMail ==
    (EmailGiven /\ ~KeyGiven) =>
        /\ mails = <<>>
        /\ (m_pc = "done" /\ runReturned) =>
              /\ m_exit = "return 1"
              /\ LogIndex(NoKeyLog) > LogIndex(ResultLog(assert_errors))
              /\ LogIndex(ResultLog(assert_errors)) > 0

\* The part of C15 the code keeps: no mail is ever attempted without a key,
\* and off a terminal main returns 1 after both log records.
Main_NoKeyNoMailOffTty ==
    (EmailGiven /\ ~KeyGiven) =>
        /\ mails = <<>>
        /\ (m_pc = "done" /\ runReturned /\ ~is_a_tty) =>
              /\ m_exit = "return 1"
              /\ LogIndex(NoKeyLog) > LogIndex(ResultLog(assert_errors))
              /\ LogIndex(ResultLog(assert_errors)) > 0

(***************************************************************************)
(* Properties of FrozenDict                                                *)
(***************************************************************************)
MutatingOps == {"__setitem__", "__delitem__", "update", "clear", "pop",
                "popitem", "setdefault"}

\* C9: FrozenDict is immutable: no operation on an instance changes the
\* mapping it holds.
C9_Immutable == [][AsMap(d_items') = AsMap(d_items)]_vars

\* The rest of C9: every mutating operation ends with TypeError.
FrozenDict_MutatorsRaiseTypeError ==
    [][d_last'.op \in MutatingOps => d_last'.outcome = "TypeError"]_vars

\* C10: after every operation an instance that compares equal to a newly
\* built FrozenDict (built in any insertion order) has the same hash as it,
\* and __hash__ returns the value it returned before.
C10_EqualImpliesEqualHash ==
    [][/\ \A other \in ItemLists :
            AsMap(other) = AsMap(d_items') => HashValue' = ComputeHash(other)
       /\ d_hash # NoHash => d_hash' = d_hash]_vars

\* The parts of C9 and C10 the code keeps: the four overridden operations
\* raise TypeError and change nothing, a cached hash never changes, and an
\* instance whose mapping was never changed hashes like any equal new one.
FrozenDict_OverriddenOpsRaise ==
    [][d_last'.op \in {"__setitem__", "__delitem__", "update", "clear"} =>
          (d_last'.outcome = "TypeError" /\ d_items' = d_items)]_vars
FrozenDict_CachedHashStable == [][d_hash # NoHash => d_hash' = d_hash]_vars

(***************************************************************************)
(* Properties of _ui                                                       *)
(***************************************************************************)
IsTask(root) == root.kind = "Task"

\* C12: after every refresh the bars are red exactly if the root task read at
\* that refresh exists and is ERRORED, green exactly if it exists and is
\* FINISHED, and blue otherwise; and the refresh read the state of the root
\* task only if the root task existed (so the loop never ended with the
\* AttributeError of reading None.state).
C12_BarColourFollowsRootState ==
    /\ u_pc # "AttributeError"
    /\ u_state_read => IsTask(u_read)
    /\ u_read # Unread =>
          /\ shown_bar = "red" <=> (IsTask(u_read) /\ u_read.state = "ERRORED")
          /\ shown_bar = "green" <=> (IsTask(u_read) /\ u_read.state = "FINISHED")
          /\ shown_bar = "blue" <=>
                \/ u_read = None
                \/ IsTask(u_read) /\ u_read.state \in {"PENDING", "RUNNING"}

\* A refresh found the root task ERRORED and drew the bars red; the root task
\* had been displayed before (the separator was moved on an earlier pass or
\* this one).
C12_Witness ==
    /\ u_read = Task("ERRORED")
    /\ u_state_read
    /\ shown_bar = "red"
    /\ separator # 1

\* A refresh that found no root task read no state and drew the bars blue.
Ui_NoRootBlue ==
    (u_read = None) => (~u_state_read /\ shown_bar = "blue" /\ separator = 1)

(***************************************************************************)
(* Properties of LogBuffer                                                 *)
(***************************************************************************)
\* The stored lines, read oldest first.
StoredLines == GetLines(l_buffer, 0, Len(l_buffer))

\* The text split at every newline: the terminated lines, then the rest.
RECURSIVE SplitAtFrom(_, _)
SplitAtFrom(str, cur) ==
    IF str = <<>> THEN <<cur>>
    ELSE IF Head(str) = NL THEN <<cur>> \o SplitAtFrom(Tail(str), <<>>)
    ELSE SplitAtFrom(Tail(str), Append(cur, Head(str)))

SplitAtNewlines(str) == SplitAtFrom(str, <<>>)

\* C16: the stored lines, oldest first, are the lines of the concatenation of
\* everything written: its newline-terminated lines followed by the
\* unterminated rest (an empty rest may or may not be stored as a line).
C16_LinesFaithful ==
    \/ StoredLines = SplitAtNewlines(l_written)
    \/ StoredLines = SplitLines(l_written)

\* The part of C16 the code keeps: when every write was either text without a
\* newline or one bare newline, the stored lines are the concatenation split
\* at its newlines.
LogBuffer_FaithfulForPlainWrites ==
    (l_plain /\ l_last # "idle") => StoredLines = SplitAtNewlines(l_written)

\* write never raises.
LogBuffer_WriteNeverRaises == l_last # "IndexError"

\* The deque never holds more than its capacity and never becomes empty.
LogBuffer_Bounded == Len(l_buffer) >= 1 /\ Len(l_buffer) <= Capacity

=============================================================================
